---- MODULE Spec2Model ----
(***************************************************************************)
(* Model of the restaurant directory functions:                            *)
(*   python-app/RestaurantManagement/__init__.py  (admin handler)          *)
(*   python-app/RestaurantRecommend/__init__.py   (recommendation handler) *)
(* One action per handler invocation.  JSON values are tagged tuples,      *)
(* text that the code lower-cases or compares is a sequence of characters. *)
(***************************************************************************)
EXTENDS Integers, Sequences, FiniteSets, TLC

VARIABLES
    store,        \* the Cosmos container: id -> stored item
    now,          \* the wall clock read by datetime.now()
    served,       \* number of admin requests handled so far
    secretCache,  \* _secret_cache: secret name -> value
    environ,      \* os.environ, restricted to the secret names
    req,          \* the request of the last invocation
    resp,         \* the response of the last invocation
    requestLog,   \* the request_log handed to log_request_to_blob
    storeCalls,   \* container operations issued by the last invocation
    vaultUp,      \* the secret names the vault answers during the invocation
    storeUp,      \* whether the Cosmos account answers during the invocation
    pc,           \* "idle", or "responded": main has returned
    tOpen, tClose, tNow, tResult,  \* is_restaurant_open: inputs and result
    order,          \* the ids of the stored items in the order query_items yields them
    query,          \* the request of the last recommendation invocation
    merged,         \* its merged query and body parameters
    handed,         \* the list handed to filter_restaurants
    matched,        \* what filter_restaurants returned, or that it raised
    again,          \* the outcome of a second call on the same list
    refiltered,     \* the outcome of a call on the returned list
    recommendation, \* the response of the last recommendation invocation
    vault,          \* the secret values the vault holds now
    threads,        \* per invocation thread: its place in get_secret_from_keyvault
    learned,        \* per name: the value of its first successful vault lookup
    resolves        \* number of get_secret_from_keyvault calls started

recommendVars == <<order, query, merged, handed, matched, again, refiltered,
                   recommendation>>

vars == <<store, now, served, secretCache, environ, req, resp, requestLog,
          storeCalls, vaultUp, storeUp, pc, tOpen, tClose, tNow, tResult,
          order, query, merged, handed, matched, again,
          refiltered, recommendation, vault, threads, learned, resolves>>

resolverVars == <<vault, threads, learned, resolves>>

-----------------------------------------------------------------------------
(* Bounds of the model *)

MaxRequests == 3     \* admin requests handled in one behaviour
MaxRecords == 2      \* items the container holds at most

-----------------------------------------------------------------------------
(* Text: str values are sequences of one-character strings *)

UpperAlpha == <<"A","B","C","D","E","F","G","H","I","J","K","L","M",
                "N","O","P","Q","R","S","T","U","V","W","X","Y","Z">>
LowerAlpha == <<"a","b","c","d","e","f","g","h","i","j","k","l","m",
                "n","o","p","q","r","s","t","u","v","w","x","y","z">>

\* The lower-case letter of every upper-case letter
LowerOf ==
    [c \in {UpperAlpha[i] : i \in 1..26} |->
        LowerAlpha[CHOOSE i \in 1..26 : UpperAlpha[i] = c]]

LowerChar(c) == IF c \in DOMAIN LowerOf THEN LowerOf[c] ELSE c

\* str.lower()
Lower(s) == [i \in 1..Len(s) |-> LowerChar(s[i])]

-----------------------------------------------------------------------------
(* JSON / Python values *)

JStr(s) == <<"str", s>>
JBool(b) == <<"bool", b>>
JNum(n) == <<"num", n>>
JNull == <<"null">>
JObj(f) == <<"obj", f>>
JArr(s) == <<"arr", s>>
\* datetime.now().isoformat() at clock value t: a str
JTime(t) == <<"iso", t>>
\* The decimal digits of a clock value below 10
Digit(n) == <<"0","1","2","3","4","5","6","7","8","9">>[n + 1]
\* hashlib.md5(f"{name}-{iso}").hexdigest(): a str; the digest is abstract, an
\* injective text of what was hashed (name: the str's characters)
JMd5(name, t) == JStr(<<"#">> \o name[2] \o <<"-", Digit(t)>>)

EmptyDict == [k \in {} |-> JNull]

IsStr(v) == v[1] \in {"str", "iso"}
IsBool(v) == v[1] = "bool"
IsDict(v) == v[1] = "obj"

\* Python truthiness, as used by "if not x"
Truthy(v) ==
    CASE v[1] = "str" -> v[2] # <<>>
      [] v[1] = "bool" -> v[2]
      [] v[1] = "num" -> v[2] # 0
      [] v[1] = "null" -> FALSE
      [] v[1] = "obj" -> DOMAIN v[2] # {}
      [] v[1] = "arr" -> v[2] # <<>>
      [] OTHER -> TRUE

\* dict.get(key, default)
DictGet(d, key, default) == IF key \in DOMAIN d THEN d[key] ELSE default

\* d[key] = value
DictSet(d, key, value) ==
    [k \in DOMAIN d \cup {key} |-> IF k = key THEN value ELSE d[k]]

-----------------------------------------------------------------------------
(* Secret resolver *)

SecretNames == {"admin-api-key", "cosmos-endpoint", "cosmos-key",
                "CosmosDataBase", "CosmosContainer",
                "BlobStorageConnStr", "BlobContainerName"}

GoodKey == <<"k", "1">>     \* admin-api-key as the vault holds it
EnvKey == <<"k", "2">>      \* admin-api-key as the environment holds it

\* secret_client.get_secret(name).value
VaultValue(name) == IF name = "admin-api-key" THEN GoodKey ELSE <<"v">>

\* get_secret_from_keyvault(secret_name); up: the names the vault answers
\* for now.  Result: raised or returned value, and the cache afterwards.
get_secret_from_keyvault(name, cache, up, env) ==
    IF name \in DOMAIN cache
    THEN [raised |-> FALSE, value |-> cache[name], cache |-> cache]
    ELSE IF name \in up
    THEN [raised |-> FALSE, value |-> VaultValue(name),
          cache |-> DictSet(cache, name, VaultValue(name))]
    ELSE IF name \in DOMAIN env /\ env[name] # <<>>
    THEN [raised |-> FALSE, value |-> env[name], cache |-> cache]
    ELSE [raised |-> TRUE, value |-> <<>>, cache |-> cache]

\* Resolve the names of a sequence in order, stopping at the first that raises.
RECURSIVE ResolveAll(_, _, _, _)
ResolveAll(names, cache, up, env) ==
    IF names = <<>>
    THEN [raised |-> FALSE, cache |-> cache]
    ELSE LET r == get_secret_from_keyvault(Head(names), cache, up, env)
         IN IF r.raised
            THEN [raised |-> TRUE, cache |-> r.cache]
            ELSE ResolveAll(Tail(names), r.cache, up, env)

CosmosSecrets == <<"cosmos-endpoint", "cosmos-key", "CosmosDataBase",
                   "CosmosContainer">>

\* get_cosmos_connection(): the four secrets, then the client; acct is
\* whether the account answers.
get_cosmos_connection(cache, up, env, acct) ==
    LET r == ResolveAll(CosmosSecrets, cache, up, env)
    IN [raised |-> r.raised \/ ~acct, cache |-> r.cache]

BlobSecrets == <<"BlobStorageConnStr", "BlobContainerName">>

\* log_request_to_blob(request_data): every failure is swallowed; what stays
\* is the effect on the secret cache.
log_request_to_blob(cache, up, env) ==
    ResolveAll(BlobSecrets, cache, up, env).cache

\* A resolver without a cache
CacheNeverHits(name, cache) == FALSE

\* get_secret_from_keyvault step by step, as concurrent invocations run it.
\* Line 16: the cache holds the name
CacheHit(name, cache) == name \in DOMAIN cache

\* Lines 20-23: the vault's answer; up: the names it answers, held: its values
VaultLookup(name, up, held) ==
    IF name \in up
    THEN [raised |-> FALSE, value |-> held[name]]
    ELSE [raised |-> TRUE, value |-> <<>>]

\* Lines 28-35: the environment variable of the same name when it is set and
\* not empty, else the vault's exception again
EnvironmentFallback(name, env) ==
    IF name \in DOMAIN env /\ env[name] # <<>>
    THEN [raised |-> FALSE, value |-> env[name]]
    ELSE [raised |-> TRUE, value |-> <<>>]


-----------------------------------------------------------------------------
(* The HTTP request, as the Functions host hands it to main *)

K_x_admin_key == <<"x","-","a","d","m","i","n","-","k","e","y">>
K_authorization == <<"a","u","t","h","o","r","i","z","a","t","i","o","n">>
K_admin_key == <<"a","d","m","i","n","_","k","e","y">>
K_action == <<"a","c","t","i","o","n">>
K_id == <<"i","d">>

NoParams == [k \in {} |-> <<>>]

\* req.get_json() raised ValueError: no body, or a body that is not JSON
InvalidJson == <<"invalid">>

\* req.url: the address the client called, query string included
UrlOf(params) == [path |-> "/api/RestaurantManagement", query |-> params]

\* req.headers.get(name): header names are case-insensitive
HeaderGet(headers, name) ==
    IF \E k \in DOMAIN headers : Lower(k) = name
    THEN JStr(headers[CHOOSE k \in DOMAIN headers : Lower(k) = name])
    ELSE JNull

\* req.params.get(name, default)
ParamGet(params, name, default) ==
    IF name \in DOMAIN params THEN JStr(params[name]) ELSE default

\* request_log of main, lines 226-232 (the timestamp is the clock value)
RequestLogOf(rq, t) ==
    [timestamp |-> t,
     method |-> rq.method,
     url |-> UrlOf(rq.params),
     query_params |-> [k \in {k \in DOMAIN rq.params : Lower(k) # K_admin_key}
                          |-> rq.params[k]],
     headers |-> [k \in {k \in DOMAIN rq.headers :
                            Lower(k) \notin {K_x_admin_key, K_authorization}}
                     |-> rq.headers[k]]]

-----------------------------------------------------------------------------
(* validate_admin_credentials *)

\* The key the caller supplied: header, then query parameter, then body.
\* raised: req_body.get on a body that is no dict (AttributeError).
SuppliedKey(rq) ==
    LET h == HeaderGet(rq.headers, K_x_admin_key)
        q == ParamGet(rq.params, K_admin_key, JNull)
    IN IF Truthy(h) THEN [raised |-> FALSE, key |-> h]
       ELSE IF Truthy(q) THEN [raised |-> FALSE, key |-> q]
       ELSE IF rq.body = InvalidJson THEN [raised |-> FALSE, key |-> q]
       ELSE IF ~IsDict(rq.body) THEN [raised |-> TRUE, key |-> q]
       ELSE [raised |-> FALSE, key |-> DictGet(rq.body[2], "admin_key", JNull)]

\* A comparison that ignores letter case
KeysEqualIgnoringCase(expected, supplied) ==
    supplied[1] = "str" /\ Lower(expected) = Lower(supplied[2])

\* expected_admin_key == req_admin_key
KeysEqual(expected, supplied) == JStr(expected) = supplied

validate_admin_credentials(rq, cache, up, env) ==
    LET e == get_secret_from_keyvault("admin-api-key", cache, up, env)
        k == SuppliedKey(rq)
    IN [cache |-> e.cache,
        ok |-> /\ ~e.raised
               /\ ~k.raised
               /\ Truthy(k.key)
               /\ KeysEqual(e.value, k.key)]

-----------------------------------------------------------------------------
(* Record store operations of the admin handler *)

\* str(e) of the exceptions the operations catch
ConnectionErrorText == "error: cannot connect to the record store"
ConflictText == "error: the store rejected the item"
TypeErrorText == "error: TypeError"
AttributeErrorText == "error: AttributeError"
NotFoundText == "Restaurant not found"

NoItem == EmptyDict

required_fields == <<"name", "style", "openHour", "closeHour", "priceRange">>
boolean_fields == <<"vegetarian", "deliveries">>

S_true == <<"t", "r", "u", "e">>
S_false == <<"f", "a", "l", "s", "e">>

\* The last required field the dict lacks
LastMissing(d) ==
    LET missing == {i \in 1..Len(required_fields) : required_fields[i] \notin DOMAIN d}
    IN required_fields[CHOOSE i \in missing : \A j \in missing : i >= j]

\* The first required field the dict lacks (lines 130-132)
FirstMissing(d) ==
    LET missing == {i \in 1..Len(required_fields) : required_fields[i] \notin DOMAIN d}
    IN required_fields[CHOOSE i \in missing : \A j \in missing : i <= j]

\* restaurant_data[field].lower() == 'true'  (line 139)
CoerceBool(v) == JBool(v[1] = "str" /\ Lower(v[2]) = S_true)

\* The boolean_fields loop (lines 136-141): the dict with text coerced, or the
\* first field that is neither a bool nor a str.
RECURSIVE EnsureBooleans(_, _)
EnsureBooleans(d, fields) ==
    IF fields = <<>>
    THEN [ok |-> TRUE, field |-> "", dict |-> d]
    ELSE LET f == Head(fields)
         IN IF f \notin DOMAIN d \/ IsBool(d[f])
            THEN EnsureBooleans(d, Tail(fields))
            ELSE IF IsStr(d[f])
            THEN EnsureBooleans(DictSet(d, f, CoerceBool(d[f])), Tail(fields))
            ELSE [ok |-> FALSE, field |-> f, dict |-> d]

\* Lines 144-152: id when absent, createdAt, updatedAt
AddMetadata(d, t) ==
    LET withId == IF "id" \in DOMAIN d THEN d
                  ELSE DictSet(d, "id", JMd5(d["name"], t))
        created == DictSet(withId, "createdAt", JTime(t))
    IN DictSet(created, "updatedAt", created["createdAt"])

\* container.create_item: the store takes an item whose id is a non-empty
\* string no stored item has.
StoreAccepts(st, item) ==
    /\ IsStr(item["id"])
    /\ Truthy(item["id"])
    /\ item["id"] \notin DOMAIN st

Outcome(ok, msg, item, st, cache, calls) ==
    [ok |-> ok, msg |-> msg, item |-> item, store |-> st, cache |-> cache,
     calls |-> calls]

\* add_restaurant(restaurant_data); data is a JSON value that is truthy
add_restaurant(data, st, cache, up, env, acct, t) ==
    LET c == get_cosmos_connection(cache, up, env, acct)
    IN IF c.raised
       THEN Outcome(FALSE, ConnectionErrorText, NoItem, st, c.cache, <<>>)
       ELSE IF ~IsDict(data)
       THEN Outcome(FALSE, TypeErrorText, NoItem, st, c.cache, <<>>)
       ELSE IF \E i \in 1..Len(required_fields) : required_fields[i] \notin DOMAIN data[2]
       THEN Outcome(FALSE, "Missing required field: " \o FirstMissing(data[2]),
                    NoItem, st, c.cache, <<>>)
       ELSE LET b == EnsureBooleans(data[2], boolean_fields)
            IN IF ~b.ok
               THEN Outcome(FALSE, "Field " \o b.field \o " must be a boolean",
                            NoItem, st, c.cache, <<>>)
               ELSE LET item == AddMetadata(b.dict, t)
                    IN IF StoreAccepts(st, item)
                       THEN Outcome(TRUE, "", item,
                                    DictSet(st, item["id"], item), c.cache,
                                    <<"create">>)
                       ELSE Outcome(FALSE, ConflictText, NoItem, st, c.cache,
                                    <<"create">>)

\* A merge that writes 'id' as well
MergeFieldsWithId(item, update) ==
    [k \in DOMAIN item \cup DOMAIN update |->
        IF k \in DOMAIN update THEN update[k] ELSE item[k]]

\* Lines 173-175: every field of update_data but 'id' is written to the item
MergeFields(item, update) ==
    [k \in DOMAIN item \cup (DOMAIN update \ {"id"}) |->
        IF k \in DOMAIN update \ {"id"} THEN update[k] ELSE item[k]]

\* An update that creates the item when the store does not hold the id
update_restaurant_upsert(id, data, st, cache, up, env, acct, t) ==
    LET c == get_cosmos_connection(cache, up, env, acct)
        old == IF id \in DOMAIN st THEN st[id] ELSE ("id" :> id)
    IN IF c.raised
       THEN Outcome(FALSE, ConnectionErrorText, NoItem, st, c.cache, <<>>)
       ELSE IF ~IsDict(data)
       THEN Outcome(FALSE, TypeErrorText, NoItem, st, c.cache, <<"read">>)
       ELSE LET item == DictSet(MergeFields(old, data[2]), "updatedAt", JTime(t))
            IN Outcome(TRUE, "", item, DictSet(st, id, item), c.cache,
                       <<"read", "replace">>)

\* update_restaurant(restaurant_id, update_data); both truthy
update_restaurant(id, data, st, cache, up, env, acct, t) ==
    LET c == get_cosmos_connection(cache, up, env, acct)
    IN IF c.raised
       THEN Outcome(FALSE, ConnectionErrorText, NoItem, st, c.cache, <<>>)
       ELSE IF id \notin DOMAIN st
       THEN Outcome(FALSE, NotFoundText, NoItem, st, c.cache, <<"read">>)
       ELSE IF ~IsDict(data)
       THEN Outcome(FALSE, TypeErrorText, NoItem, st, c.cache, <<"read">>)
       ELSE LET item == DictSet(MergeFields(st[id], data[2]), "updatedAt", JTime(t))
            IN Outcome(TRUE, "", item, DictSet(st, id, item), c.cache,
                       <<"read", "replace">>)

\* delete_restaurant(restaurant_id)
delete_restaurant(id, st, cache, up, env, acct) ==
    LET c == get_cosmos_connection(cache, up, env, acct)
    IN IF c.raised
       THEN Outcome(FALSE, ConnectionErrorText, NoItem, st, c.cache, <<>>)
       ELSE IF id \notin DOMAIN st
       THEN Outcome(FALSE, NotFoundText, NoItem, st, c.cache, <<"delete">>)
       ELSE Outcome(TRUE, "Restaurant deleted successfully", NoItem,
                    [k \in DOMAIN st \ {id} |-> st[k]], c.cache, <<"delete">>)

\* get_restaurant(restaurant_id)
get_restaurant(id, st, cache, up, env, acct) ==
    LET c == get_cosmos_connection(cache, up, env, acct)
    IN IF c.raised
       THEN Outcome(FALSE, ConnectionErrorText, NoItem, st, c.cache, <<>>)
       ELSE IF id \notin DOMAIN st
       THEN Outcome(FALSE, NotFoundText, NoItem, st, c.cache, <<"read">>)
       ELSE Outcome(TRUE, "", st[id], st, c.cache, <<"read">>)

-----------------------------------------------------------------------------
(* main of the admin handler *)

S_list == <<"l", "i", "s", "t">>
S_get == <<"g", "e", "t">>
S_add == <<"a", "d", "d">>
S_update == <<"u", "p", "d", "a", "t", "e">>
S_delete == <<"d", "e", "l", "e", "t", "e">>

\* The text of a str, for f-strings
RECURSIVE Text(_)
Text(s) == IF s = <<>> THEN "" ELSE Head(s) \o Text(Tail(s))

\* func.HttpResponse(json.dumps({...}), status_code=...)
Response(status, kind, error, message, item, items) ==
    [status |-> status, kind |-> kind, error |-> error, message |-> message,
     restaurant |-> item, restaurants |-> items, count |-> Cardinality(items)]

\* main fell off its end: the function returned None, no HttpResponse
NoResponse == Response(0, "none", "", "", NoItem, {})

Result(rsp, st, cache, calls) ==
    [resp |-> rsp, store |-> st, cache |-> cache, calls |-> calls]

ServerError(text, st, cache, calls) ==
    Result(Response(500, "error", "Server error", text, NoItem, {}), st, cache, calls)

\* "list" (lines 265-291 and 442-468)
ListAll(st, cache, up, env, acct) ==
    LET c == get_cosmos_connection(cache, up, env, acct)
    IN IF c.raised
       THEN Result(Response(500, "error", "Failed to list restaurants",
                            ConnectionErrorText, NoItem, {}), st, c.cache, <<>>)
       ELSE Result(Response(200, "list", "", "", NoItem, {st[i] : i \in DOMAIN st}),
                   st, c.cache, <<"query">>)

\* A failed operation's response; other: the status of a failure that is not
\* "Restaurant not found"
Failure(o, error, other) ==
    Result(Response(IF o.msg = NotFoundText THEN 404 ELSE other, "error", error,
                    o.msg, NoItem, {}), o.store, o.cache, o.calls)

\* The GET branch (lines 261-327)
HandleGet(rq, st, cache, up, env, acct) ==
    LET action == Lower(ParamGet(rq.params, K_action, JStr(S_list))[2])
        id == ParamGet(rq.params, K_id, JNull)
    IN IF action = S_list
       THEN ListAll(st, cache, up, env, acct)
       ELSE IF action = S_get
       THEN IF ~Truthy(id)
            THEN Result(Response(400, "error", "Missing parameter",
                                 "Restaurant ID is required", NoItem, {}),
                        st, cache, <<>>)
            ELSE LET o == get_restaurant(id, st, cache, up, env, acct)
                 IN IF o.ok
                    THEN Result(Response(200, "item", "", "", o.item, {}),
                                o.store, o.cache, o.calls)
                    ELSE Failure(o, "Failed to get restaurant", 500)
       ELSE Result(NoResponse, st, cache, <<>>)

\* The POST, PUT, DELETE branch (lines 328-480); body is a dict
HandlePost(body, st, cache, up, env, acct, t) ==
    LET action == Lower(DictGet(body, "action", JStr(<<>>))[2])
        id == DictGet(body, "id", JNull)
        data == DictGet(body, "restaurant", JNull)
    IN IF action = S_add
       THEN IF ~Truthy(data)
            THEN Result(Response(400, "error", "Missing data",
                                 "Restaurant data is required", NoItem, {}),
                        st, cache, <<>>)
            ELSE LET o == add_restaurant(data, st, cache, up, env, acct, t)
                 IN IF o.ok
                    THEN Result(Response(201, "item", "", "Restaurant added successfully",
                                         o.item, {}), o.store, o.cache, o.calls)
                    ELSE Failure(o, "Failed to add restaurant", 400)
       ELSE IF action = S_update
       THEN IF ~Truthy(id) \/ ~Truthy(data)
            THEN Result(Response(400, "error", "Missing data",
                                 "Restaurant ID and update data are required",
                                 NoItem, {}), st, cache, <<>>)
            ELSE LET o == update_restaurant(id, data, st, cache, up, env, acct, t)
                 IN IF o.ok
                    THEN Result(Response(200, "item", "", "Restaurant updated successfully",
                                         o.item, {}), o.store, o.cache, o.calls)
                    ELSE Failure(o, "Failed to update restaurant", 400)
       ELSE IF action = S_delete
       THEN IF ~Truthy(id)
            THEN Result(Response(400, "error", "Missing data",
                                 "Restaurant ID is required", NoItem, {}),
                        st, cache, <<>>)
            ELSE LET o == delete_restaurant(id, st, cache, up, env, acct)
                 IN IF o.ok
                    THEN Result(Response(200, "message", "", o.msg, NoItem, {}),
                                o.store, o.cache, o.calls)
                    ELSE Failure(o, "Failed to delete restaurant", 400)
       ELSE IF action = S_list
       THEN ListAll(st, cache, up, env, acct)
       ELSE Result(Response(400, "error", "Invalid action",
                            "Unknown admin action: " \o Text(action), NoItem, {}),
                   st, cache, <<>>)

\* Lines 252-492: routing of an authenticated request
Route(rq, st, cache, up, env, acct, t) ==
    LET req_body == IF rq.body = InvalidJson THEN JObj(EmptyDict) ELSE rq.body
    IN IF rq.method = "GET"
       THEN HandleGet(rq, st, cache, up, env, acct)
       ELSE IF ~IsDict(req_body)
       THEN ServerError(AttributeErrorText, st, cache, <<>>)
       ELSE IF DictGet(req_body[2], "action", JStr(<<>>))[1] # "str"
       THEN ServerError(AttributeErrorText, st, cache, <<>>)
       ELSE HandlePost(req_body[2], st, cache, up, env, acct, t)

Unauthorized ==
    Response(401, "error", "Unauthorized access",
             "Valid admin credentials required", NoItem, {})

\* main(req) of RestaurantManagement
main(rq, st, cache, up, env, acct, t) ==
    LET logged == log_request_to_blob(cache, up, env)
        auth == validate_admin_credentials(rq, logged, up, env)
    IN IF ~auth.ok
       THEN Result(Unauthorized, st, auth.cache, <<>>)
       ELSE Route(rq, st, auth.cache, up, env, acct, t)

-----------------------------------------------------------------------------
(* is_restaurant_open of the recommendation handler *)

\* ord(c) of the characters of "HH:MM"
Ord(c) ==
    CASE c = "0" -> 48 [] c = "1" -> 49 [] c = "2" -> 50 [] c = "3" -> 51
      [] c = "4" -> 52 [] c = "5" -> 53 [] c = "6" -> 54 [] c = "7" -> 55
      [] c = "8" -> 56 [] c = "9" -> 57 [] c = ":" -> 58

\* a < b on str: lexicographic by code point
StrLess(a, b) ==
    \E i \in 1..(Len(b)) :
        /\ \A j \in 1..(i - 1) : j <= Len(a) /\ a[j] = b[j]
        /\ \/ i = Len(a) + 1
           \/ i <= Len(a) /\ Ord(a[i]) < Ord(b[i])

StrLeq(a, b) == a = b \/ StrLess(a, b)

\* datetime.strftime("%H:%M") of minute m of the day
HHMM(m) ==
    <<Digit((m \div 60) \div 10), Digit((m \div 60) % 10), ":",
      Digit((m % 60) \div 10), Digit((m % 60) % 10)>>

\* A window that excludes its closing minute
is_restaurant_open_exclusive(open_hour, close_hour, current_time) ==
    IF StrLess(close_hour, open_hour)
    THEN StrLeq(open_hour, current_time) \/ StrLess(current_time, close_hour)
    ELSE StrLeq(open_hour, current_time) /\ StrLess(current_time, close_hour)

\* is_restaurant_open(open_hour, close_hour), current_time being the clock's
\* "%H:%M" (lines 66-78)
is_restaurant_open(open_hour, close_hour, current_time) ==
    IF StrLess(close_hour, open_hour)
    THEN StrLeq(open_hour, current_time) \/ StrLeq(current_time, close_hour)
    ELSE StrLeq(open_hour, current_time) /\ StrLeq(current_time, close_hour)

-----------------------------------------------------------------------------
(* filter_restaurants and main of the recommendation handler *)

\* a == b of Python on JSON values: True == 1 and False == 0, else like with like
PyEq(a, b) ==
    IF a[1] \in {"bool", "num"} /\ b[1] \in {"bool", "num"}
    THEN (IF a[1] = "bool" THEN (IF a[2] THEN 1 ELSE 0) ELSE a[2])
         = (IF b[1] = "bool" THEN (IF b[2] THEN 1 ELSE 0) ELSE b[2])
    ELSE a[1] = b[1] /\ a = b

\* The outcome of an expression: an exception, or a value
Raised == [raised |-> TRUE, value |-> <<>>]
Returned(v) == [raised |-> FALSE, value |-> v]

\* The elements of a list
Elements(lst) == {lst.value[i] : i \in 1..Len(lst.value)}

\* [r for r in lst if test(r)]: the test is evaluated on every element in
\* order; an element on which it raises ends the whole comprehension.
\* raising: the elements on which the test raises; passing: those it keeps.
Comprehension(lst, raising, passing) ==
    IF lst.raised THEN lst
    ELSE IF \E i \in 1..Len(lst.value) : lst.value[i] \in raising THEN Raised
    ELSE Returned(SelectSeq(lst.value, LAMBDA r : r \in passing))

\* is_restaurant_open(r['openHour'], r['closeHour']) raises KeyError on a
\* missing field and TypeError when an hour is not a str
OpenCheckRaises(r) ==
    \/ "openHour" \notin DOMAIN r
    \/ "closeHour" \notin DOMAIN r
    \/ r["openHour"][1] # "str"
    \/ r["closeHour"][1] # "str"

IsOpenAt(r, current_time) ==
    is_restaurant_open(r["openHour"][2], r["closeHour"][2], current_time)

\* Line 87
OpenFilter(lst, current_time) ==
    LET raising == {r \in Elements(lst) : OpenCheckRaises(r)}
    IN Comprehension(lst, raising,
                     {r \in Elements(lst) \ raising : IsOpenAt(r, current_time)})

\* Lines 90-93 and 112-114
StyleFilter(lst, query_params) ==
    IF lst.raised \/ "style" \notin DOMAIN query_params THEN lst
    ELSE IF query_params["style"][1] # "str" THEN Raised
    ELSE LET raising == {r \in Elements(lst) :
                            "style" \notin DOMAIN r \/ r["style"][1] # "str"}
         IN Comprehension(lst, raising,
                {r \in Elements(lst) \ raising :
                    Lower(r["style"][2]) = Lower(query_params["style"][2])})

\* Lines 95-103 and 116-122: field is vegetarian or deliveries
BooleanFilter(lst, query_params, field) ==
    IF lst.raised \/ field \notin DOMAIN query_params THEN lst
    ELSE IF query_params[field][1] # "str" THEN Raised
    ELSE LET raising == {r \in Elements(lst) : field \notin DOMAIN r}
         IN Comprehension(lst, raising,
                {r \in Elements(lst) \ raising :
                    PyEq(r[field], JBool(Lower(query_params[field][2]) = S_true))})

\* Lines 105-108 and 124-126
PriceFilter(lst, query_params) ==
    IF lst.raised \/ "priceRange" \notin DOMAIN query_params THEN lst
    ELSE LET raising == {r \in Elements(lst) : "priceRange" \notin DOMAIN r}
         IN Comprehension(lst, raising,
                {r \in Elements(lst) \ raising :
                    PyEq(r["priceRange"], query_params["priceRange"])})

\* The four filters after the open filter, in the order of the code
ParameterFilters(lst, query_params) ==
    PriceFilter(
        BooleanFilter(
            BooleanFilter(StyleFilter(lst, query_params), query_params, "vegetarian"),
            query_params, "deliveries"),
        query_params)

\* Line 110: 'openNow' in query_params and query_params['openNow'].lower() == 'false'
OpenNowIsFalse(query_params) ==
    IF "openNow" \notin DOMAIN query_params THEN Returned(FALSE)
    ELSE IF query_params["openNow"][1] # "str" THEN Raised
    ELSE Returned(Lower(query_params["openNow"][2]) = S_false)

\* A filter that narrows the list it was given instead of a copy of it
filter_restaurants_in_place(query_params, restaurants, current_time) ==
    LET filtered == ParameterFilters(OpenFilter(Returned(restaurants), current_time),
                                     query_params)
        bypass == OpenNowIsFalse(query_params)
        temp == ParameterFilters(Returned(restaurants), query_params)
        out == IF filtered.raised \/ bypass.raised THEN Raised
               ELSE IF bypass.value THEN temp ELSE filtered
    IN [raised |-> out.raised, value |-> out.value,
        restaurants |-> IF out.raised THEN restaurants ELSE out.value]

\* filter_restaurants(query_params, restaurants) at clock minute current_time.
\* Result: raised or the returned list, and the caller's list after the call
\* (the code works on restaurants.copy(), lines 82 and 111).
filter_restaurants(query_params, restaurants, current_time) ==
    LET filtered == ParameterFilters(OpenFilter(Returned(restaurants), current_time),
                                     query_params)
        bypass == OpenNowIsFalse(query_params)
        temp == ParameterFilters(Returned(restaurants), query_params)
        out == IF filtered.raised \/ bypass.raised THEN Raised
               ELSE IF bypass.value THEN temp ELSE filtered
    IN [raised |-> out.raised, value |-> out.value, restaurants |-> restaurants]

\* container.query_items("SELECT * FROM c"): the stored items in the order the
\* query yields them
query_items(st, ids) == [i \in 1..Len(ids) |-> st[ids[i]]]

\* get_hardcoded_restaurants()
get_hardcoded_restaurants == <<>>

\* get_restaurants_from_cosmos_db(): every failure falls back to the hardcoded
\* list.
get_restaurants_from_cosmos_db(st, ids, cache, up, env, acct) ==
    LET r == ResolveAll(CosmosSecrets, cache, up, env)
    IN [value |-> IF r.raised \/ ~acct THEN get_hardcoded_restaurants
                  ELSE query_items(st, ids),
        cache |-> r.cache]

\* Lines 189-200: the query parameters, then the keys of a JSON body over them.
\* A body that is not JSON is skipped; a truthy body that is no dict has no
\* items() and raises AttributeError.
MergeParameters(rq) ==
    LET fromUrl == [k \in DOMAIN rq.params |-> JStr(rq.params[k])]
    IN IF rq.body = InvalidJson \/ ~Truthy(rq.body) THEN Returned(fromUrl)
       ELSE IF ~IsDict(rq.body) THEN Raised
       ELSE Returned([k \in DOMAIN fromUrl \cup DOMAIN rq.body[2] |->
                        IF k \in DOMAIN rq.body[2] THEN rq.body[2][k] ELSE fromUrl[k]])

\* Lines 219-220
WithIsOpenNow(lst, current_time) ==
    [i \in 1..Len(lst) |->
        DictSet(lst[i], "isOpenNow", JBool(IsOpenAt(lst[i], current_time)))]

\* The three responses of the recommendation handler
Recommendation(lst) ==
    [status |-> 200,
     body |-> [restaurants |-> lst, requestTime |-> "now", totalMatches |-> Len(lst)]]
NoMatch ==
    [status |-> 404,
     body |-> [message |-> "No restaurants match your criteria", requestTime |-> "now"]]
RequestFailed ==
    [status |-> 500,
     body |-> [error |-> "An error occurred processing your request",
               details |-> "str(e)", requestTime |-> "now"]]

\* A main that answers every filtered list, the empty one too, with 200
main_recommend_always_200(rq, st, ids, cache, up, env, acct, current_time) ==
    LET logged == log_request_to_blob(cache, up, env)
        query_params == MergeParameters(rq)
        fetched == get_restaurants_from_cosmos_db(st, ids, logged, up, env, acct)
        matching == IF query_params.raised THEN [raised |-> TRUE, value |-> <<>>, restaurants |-> <<>>]
                    ELSE filter_restaurants(query_params.value, fetched.value, current_time)
    IN [resp |-> IF matching.raised THEN RequestFailed
                 ELSE Recommendation(WithIsOpenNow(matching.value, current_time)),
        cache |-> IF query_params.raised THEN logged ELSE fetched.cache,
        query_params |-> query_params,
        restaurants |-> IF query_params.raised THEN <<>> ELSE fetched.value,
        matching |-> matching]

\* main(req) of RestaurantRecommend at clock minute current_time.  Besides the
\* response and the secret cache: the merged parameters, the list handed to
\* filter_restaurants and what it returned.
main_recommend(rq, st, ids, cache, up, env, acct, current_time) ==
    LET logged == log_request_to_blob(cache, up, env)
        query_params == MergeParameters(rq)
        fetched == get_restaurants_from_cosmos_db(st, ids, logged, up, env, acct)
        matching == IF query_params.raised THEN [raised |-> TRUE, value |-> <<>>, restaurants |-> <<>>]
                    ELSE filter_restaurants(query_params.value, fetched.value, current_time)
    IN [resp |-> IF matching.raised THEN RequestFailed
                 ELSE IF matching.value # <<>>
                 THEN Recommendation(WithIsOpenNow(matching.value, current_time))
                 ELSE NoMatch,
        cache |-> IF query_params.raised THEN logged ELSE fetched.cache,
        query_params |-> query_params,
        restaurants |-> IF query_params.raised THEN <<>> ELSE fetched.value,
        matching |-> matching]

-----------------------------------------------------------------------------
(* Inputs: the requests and the answers of the environment *)

CaseKey == <<"K", "1">>          \* the vault's key in another letter case
K_X_Admin_Key == <<"X","-","A","d","m","i","n","-","K","e","y">>

Id1 == JStr(<<"r", "1">>)
Id2 == JStr(<<"r", "2">>)
NameA == JStr(<<"A">>)
NameB == JStr(<<"B">>)
OldStamp == JStr(<<"o", "l", "d">>)

\* A restaurant with the five required fields
Complete ==
    ("name" :> NameA) @@ ("style" :> JStr(<<"I", "t">>))
      @@ ("openHour" :> JStr(HHMM(540))) @@ ("closeHour" :> JStr(HHMM(1320)))
      @@ ("priceRange" :> JStr(<<"$">>))

Without(d, keys) == [k \in DOMAIN d \ keys |-> d[k]]

\* Values a caller may send for vegetarian and deliveries
BoolInputs ==
    {JBool(TRUE), JBool(FALSE), JStr(<<"t","r","u","e">>), JStr(<<"T","R","U","E">>),
     JStr(<<"f","a","l","s","e">>), JStr(<<"F","a","l","s","e">>),
     JStr(<<"y","e","s">>), JStr(<<>>), JNum(1), JNull}

\* The "restaurant" values sent with add
AddPayloads ==
    {JObj(Complete), JObj(Complete @@ ("id" :> Id1)), JObj(Complete @@ ("id" :> Id2)),
     JObj(EmptyDict), JNull, JNum(5),
     JObj(Complete @@ ("id" :> JNum(7))),
     JObj(Complete @@ ("id" :> Id1) @@ ("createdAt" :> OldStamp) @@ ("updatedAt" :> OldStamp))}
    \cup {JObj(Without(Complete @@ ("id" :> Id1), {f})) : f \in DOMAIN Complete}
    \cup {JObj(Without(Complete, {"name", "priceRange"})),
          JObj(Without(Complete, {"style", "openHour", "closeHour"})),
          JObj(Without(Complete, {"priceRange"}) @@ ("vegetarian" :> JNum(1))),
          JObj("id" :> Id1)}
    \cup {JObj(Complete @@ ("id" :> Id1) @@ ("vegetarian" :> v)) : v \in BoolInputs}
    \cup {JObj(Complete @@ ("id" :> Id2) @@ ("deliveries" :> v)) : v \in BoolInputs}
    \cup {JObj(Complete @@ ("vegetarian" :> JNum(1)) @@ ("deliveries" :> JStr(<<"T","r","u","e">>))),
          JObj(Complete @@ ("vegetarian" :> JStr(<<"T","r","u","e">>)) @@ ("deliveries" :> JNum(1))),
          JObj(Complete @@ ("vegetarian" :> JNum(1)) @@ ("deliveries" :> JNull))}

\* The "restaurant" values sent with update
UpdatePayloads ==
    {JObj("name" :> NameB), JObj(("id" :> Id2) @@ ("name" :> NameB)),
     JObj("createdAt" :> OldStamp), JObj("updatedAt" :> OldStamp),
     JObj("vegetarian" :> JBool(TRUE)), JObj("deliveries" :> JStr(<<"y","e","s">>)),
     JObj("rating" :> JNum(5)),
     JObj(EmptyDict), JNull, JNum(5)}

\* The ids a caller names: two literal ids, a generated one, none, the empty str
IdInputs == {Id1, Id2, JMd5(NameA, 1)}

GoodHeaders == K_x_admin_key :> GoodKey

Request(method, headers, params, body) ==
    [method |-> method, headers |-> headers, params |-> params, body |-> body]

\* Requests of a caller who holds the vault's key and sends it in the header
AddRequests ==
    {Request("POST", GoodHeaders, NoParams,
             JObj(("action" :> JStr(S_add)) @@ ("restaurant" :> d))) : d \in AddPayloads}
    \cup {Request("POST", GoodHeaders, NoParams, JObj("action" :> JStr(<<"A","d","d">>)))}

UpdateRequests ==
    {Request("PUT", GoodHeaders, NoParams,
             JObj(("action" :> JStr(S_update)) @@ ("id" :> i) @@ ("restaurant" :> d))) :
        i \in {Id1, Id2}, d \in UpdatePayloads}
    \cup {Request("PUT", GoodHeaders, NoParams,
                  JObj(("action" :> JStr(S_update)) @@ ("id" :> i)
                       @@ ("restaurant" :> JObj("name" :> NameB)))) :
            i \in {JMd5(NameA, 1), JStr(<<>>), JNull}}
    \cup {Request("PUT", GoodHeaders, NoParams,
                  JObj(("action" :> JStr(<<"U","P","D","A","T","E">>))
                       @@ ("restaurant" :> JObj("name" :> NameB))))}

DeleteRequests ==
    {Request("DELETE", GoodHeaders, NoParams,
             JObj(("action" :> JStr(S_delete)) @@ ("id" :> i))) :
        i \in IdInputs \cup {JStr(<<>>)}}
    \cup {Request("DELETE", GoodHeaders, NoParams, JObj("action" :> JStr(S_delete)))}

\* Action texts a caller may send
ActionInputs ==
    {S_list, <<"L","i","s","t">>, S_get, <<"G","E","T">>, S_add, S_update, S_delete,
     <<"f","o","o">>, <<>>}

GetRequests ==
    {Request("GET", GoodHeaders, NoParams, InvalidJson)}
    \cup {Request("GET", GoodHeaders, K_action :> a, InvalidJson) : a \in ActionInputs}
    \cup {Request("GET", GoodHeaders, (K_action :> a) @@ (K_id :> i[2]), InvalidJson) :
            a \in {S_get, <<"G","E","T">>, S_delete}, i \in IdInputs \cup {JStr(<<>>)}}
    \cup {Request("GET", GoodHeaders, NoParams,
                  JObj(("action" :> JStr(S_add)) @@ ("restaurant" :> JObj(Complete))))}

BodyRoutedRequests ==
    {Request(m, GoodHeaders, NoParams, b) :
        m \in {"POST", "PUT", "DELETE"},
        b \in {InvalidJson, JObj(EmptyDict), JArr(<<JStr(S_list)>>), JNull,
               JObj("action" :> JNum(1)), JObj("action" :> JNull)}}
    \cup {Request(m, GoodHeaders, NoParams, JObj(("action" :> JStr(a)) @@ ("id" :> Id1))) :
            m \in {"POST", "DELETE"},
            a \in {S_list, <<"L","i","s","t">>, S_get, <<"f","o","o">>, <<>>}}
    \cup {Request("POST", GoodHeaders, K_action :> S_list, JObj(EmptyDict))}

\* Where a caller may put a key: header x-admin-key, query admin_key, body admin_key
HeaderInputs ==
    {NoParams, K_x_admin_key :> <<>>, K_x_admin_key :> GoodKey,
     K_x_admin_key :> CaseKey, K_X_Admin_Key :> GoodKey, K_x_admin_key :> EnvKey,
     K_authorization :> GoodKey}
QueryInputs == {NoParams, K_admin_key :> <<>>, K_admin_key :> GoodKey, K_admin_key :> EnvKey}
BodyKeyInputs == {JStr(GoodKey), JStr(EnvKey), JStr(<<>>), JNum(1)}

\* The operations tried with every placement of the key
Operation(kind, params, body) == [kind |-> kind, params |-> params, body |-> body]
CredentialOps ==
    {Operation("GET", NoParams, EmptyDict),
     Operation("POST", NoParams,
               ("action" :> JStr(S_add)) @@ ("restaurant" :> JObj(Complete @@ ("id" :> Id1))))}

\* The operations tried without a key and with a wrong one
UnauthorizedOps ==
    CredentialOps
    \cup {Operation("POST", NoParams, "action" :> JStr(S_list)),
          Operation("GET", (K_action :> S_get) @@ (K_id :> Id1[2]), EmptyDict),
          Operation("GET", K_action :> <<"f","o","o">>, EmptyDict),
          Operation("PUT", NoParams,
                    ("action" :> JStr(S_update)) @@ ("id" :> Id1)
                      @@ ("restaurant" :> JObj("name" :> NameB))),
          Operation("DELETE", NoParams, ("action" :> JStr(S_delete)) @@ ("id" :> Id1)),
          Operation("POST", NoParams, "action" :> JStr(<<"f","o","o">>))}

CredentialRequests ==
    {Request(o.kind, h, q @@ o.params, JObj(o.body)) :
        o \in CredentialOps, h \in HeaderInputs, q \in QueryInputs}
    \cup {Request(o.kind, h, q @@ o.params, JObj(("admin_key" :> b) @@ o.body)) :
            o \in CredentialOps, h \in {NoParams, K_x_admin_key :> EnvKey},
            q \in {NoParams, K_admin_key :> <<>>, K_admin_key :> EnvKey}, b \in BodyKeyInputs}
    \cup {Request(o.kind, h, o.params, JObj(o.body)) :
            o \in UnauthorizedOps, h \in {NoParams, K_x_admin_key :> CaseKey}}
    \cup {Request(m, NoParams, q, b) :
            m \in {"GET", "POST"}, q \in {NoParams, K_admin_key :> GoodKey},
            b \in {InvalidJson, JArr(<<JStr(GoodKey)>>), JNull}}

Requests ==
    AddRequests \cup UpdateRequests \cup DeleteRequests \cup GetRequests
      \cup BodyRoutedRequests \cup CredentialRequests

\* The names the vault answers during one invocation
VaultAnswers ==
    {SecretNames, {}, SecretNames \ {"admin-api-key"}, SecretNames \ {"cosmos-key"}}

\* Requests tried with every answer of the vault and of the store
CoreRequests ==
    {Request("GET", GoodHeaders, NoParams, InvalidJson),
     Request("GET", K_x_admin_key :> EnvKey, NoParams, InvalidJson),
     Request("GET", GoodHeaders, (K_action :> S_get) @@ (K_id :> Id1[2]), InvalidJson),
     Request("POST", GoodHeaders, NoParams,
             JObj(("action" :> JStr(S_add)) @@ ("restaurant" :> JObj(Complete @@ ("id" :> Id1))))),
     Request("POST", GoodHeaders, NoParams,
             JObj(("action" :> JStr(S_add))
                  @@ ("restaurant" :> JObj(Without(Complete, {"priceRange"}))))),
     Request("PUT", GoodHeaders, NoParams,
             JObj(("action" :> JStr(S_update)) @@ ("id" :> Id1)
                  @@ ("restaurant" :> JObj("name" :> NameB)))),
     Request("DELETE", GoodHeaders, NoParams,
             JObj(("action" :> JStr(S_delete)) @@ ("id" :> Id1)))}

\* tick: how far the clock has advanced since the last invocation
Input(rq, up, acct, tick) == [rq |-> rq, vaultUp |-> up, storeUp |-> acct, tick |-> tick]

Inputs ==
    {Input(rq, SecretNames, TRUE, 1) : rq \in Requests}
    \cup {Input(rq, v, u, 1) : rq \in CoreRequests, v \in VaultAnswers, u \in BOOLEAN}
    \cup {Input(rq, SecretNames, TRUE, 0) : rq \in CoreRequests}

\* os.environ: no secret set, or every secret set
EmptyEnv == [k \in {} |-> <<>>]
FullEnv == [n \in SecretNames |-> IF n = "admin-api-key" THEN EnvKey ELSE <<"e">>]
Environments == {EmptyEnv, FullEnv}

-----------------------------------------------------------------------------
(* The state machine *)

NoRequest == Request("", NoParams, NoParams, InvalidJson)
NoLog == RequestLogOf(NoRequest, 0)

\* The invocation threads that resolve secrets in one process
Threads == {"t1", "t2"}

\* A thread outside get_secret_from_keyvault
Outside ==
    [pc |-> "idle", name |-> "", called |-> FALSE, secret |-> <<>>,
     result |-> [raised |-> FALSE, value |-> <<>>]]

\* The vault as deployed
VaultAsDeployed == [n \in SecretNames |-> VaultValue(n)]

\* No thread is resolving a secret
NoResolver ==
    /\ vault = VaultAsDeployed
    /\ threads = [th \in Threads |-> Outside]
    /\ learned = [k \in {} |-> <<>>]
    /\ resolves = 0

\* No recommendation request has been handled
NoQuery == [params |-> [k \in {} |-> <<>>], body |-> InvalidJson]
NoOutcome == [raised |-> FALSE, value |-> <<>>]
NoAnswer == [status |-> 0, body |-> [requestTime |-> "now"]]
NoRecommendation ==
    /\ order = <<>>
    /\ query = NoQuery
    /\ merged = NoOutcome
    /\ handed = <<>>
    /\ matched = NoOutcome
    /\ again = NoOutcome
    /\ refiltered = NoOutcome
    /\ recommendation = NoAnswer

Init ==
    /\ store = EmptyDict
    /\ now = 0
    /\ served = 0
    /\ secretCache = [k \in {} |-> <<>>]
    /\ environ \in Environments
    /\ req = NoRequest
    /\ resp = NoResponse
    /\ requestLog = NoLog
    /\ storeCalls = <<>>
    /\ vaultUp = SecretNames
    /\ storeUp = TRUE
    /\ pc = "idle"
    /\ tOpen = HHMM(0) /\ tClose = HHMM(0) /\ tNow = HHMM(0) /\ tResult = TRUE
    /\ NoRecommendation
    /\ NoResolver

\* One invocation of the admin function, from the request to the return of
\* main; the clock may have advanced since the last one.
AdminRequest ==
    /\ pc = "idle"
    /\ served < MaxRequests
    /\ \E in \in Inputs :
        \E t \in {now + in.tick} :
        \E r \in {main(in.rq, store, secretCache, in.vaultUp, environ, in.storeUp, t)} :
           /\ Cardinality(DOMAIN r.store) <= MaxRecords
           /\ served' = served + 1
           /\ now' = t
           /\ req' = in.rq
           /\ requestLog' = RequestLogOf(in.rq, t)
           /\ resp' = r.resp
           /\ store' = r.store
           /\ secretCache' = r.cache
           /\ storeCalls' = r.calls
           /\ vaultUp' = in.vaultUp
           /\ storeUp' = in.storeUp
           /\ pc' = "responded"
           /\ UNCHANGED <<environ, tOpen, tClose, tNow, tResult>>
           /\ UNCHANGED recommendVars
           /\ UNCHANGED resolverVars

\* The host has sent the response: the invocation and its locals are gone
ReturnResponse ==
    /\ pc = "responded"
    /\ req' = NoRequest
    /\ resp' = NoResponse
    /\ requestLog' = NoLog
    /\ storeCalls' = <<>>
    /\ vaultUp' = SecretNames
    /\ storeUp' = TRUE
    /\ pc' = "idle"
    /\ UNCHANGED <<store, now, served, secretCache, environ, tOpen, tClose, tNow, tResult>>
    /\ UNCHANGED recommendVars
    /\ UNCHANGED resolverVars

Next == AdminRequest \/ ReturnResponse

Spec == Init /\ [][Next]_vars

-----------------------------------------------------------------------------
(* The open-window check on its own: every call of is_restaurant_open with
   zero-padded "HH:MM" opening hours and clock *)

\* Minutes of the day the calls are tried with
Times ==
    {h * 60 + m : h \in {0, 1, 2, 9, 10, 12, 19, 20, 22, 23}, m \in {0, 1, 30, 59}}

InitOpen ==
    /\ store = EmptyDict
    /\ now = 0
    /\ served = 0
    /\ secretCache = [k \in {} |-> <<>>]
    /\ environ = EmptyEnv
    /\ req = NoRequest
    /\ resp = NoResponse
    /\ requestLog = NoLog
    /\ storeCalls = <<>>
    /\ vaultUp = SecretNames
    /\ storeUp = TRUE
    /\ pc = "idle"
    /\ tOpen \in {HHMM(m) : m \in Times}
    /\ tClose \in {HHMM(m) : m \in Times}
    /\ tNow \in {HHMM(m) : m \in Times}
    /\ tResult = FALSE
    /\ NoRecommendation
    /\ NoResolver

\* One call of is_restaurant_open at clock tNow
CheckOpen ==
    /\ pc = "idle"
    /\ tResult' = is_restaurant_open(tOpen, tClose, tNow)
    /\ pc' = "checked"
    /\ UNCHANGED <<store, now, served, secretCache, environ, req, resp,
                   requestLog, storeCalls, vaultUp, storeUp, tOpen, tClose, tNow>>
    /\ UNCHANGED recommendVars
    /\ UNCHANGED resolverVars

NextOpen == CheckOpen

SpecOpen == InitOpen /\ [][NextOpen]_vars

-----------------------------------------------------------------------------
(* The recommendation handler: one invocation of main over a stored list, then
   filter_restaurants called again on the same list and on its own result *)

MaxList == 2         \* items the container holds when recommendations are asked

Day == ("openHour" :> JStr(HHMM(540))) @@ ("closeHour" :> JStr(HHMM(1320)))
Night == ("openHour" :> JStr(HHMM(1320))) @@ ("closeHour" :> JStr(HHMM(120)))

Italian == ("name" :> NameA) @@ ("style" :> JStr(<<"I", "t">>)) @@ ("priceRange" :> JStr(<<"$">>))
French == ("name" :> NameB) @@ ("style" :> JStr(<<"F", "r">>)) @@ ("priceRange" :> JStr(<<"$", "$">>))

Both(v, d) == ("vegetarian" :> JBool(v)) @@ ("deliveries" :> JBool(d))

\* Stored items less their id: with and without the optional fields, open by
\* day or by night, one with a vegetarian text as an update stores it
Shapes ==
    {Italian @@ Day @@ Both(TRUE, TRUE),
     Italian @@ Night @@ Both(TRUE, TRUE),
     French @@ Day @@ Both(FALSE, FALSE),
     French @@ Night @@ ("vegetarian" :> JBool(FALSE)),
     Italian @@ Day,
     Italian @@ Day @@ ("vegetarian" :> JStr(S_true)) @@ ("deliveries" :> JBool(TRUE))}

ItemId(i) == <<"r", Digit(i)>>

\* The containers: up to MaxList items with ids r1, r2, ...
Containers ==
    UNION {[1..n -> Shapes] : n \in 0..MaxList}

StoreOf(shapes) ==
    [id \in {ItemId(i) : i \in 1..Len(shapes)} |->
        LET i == CHOOSE j \in 1..Len(shapes) : ItemId(j) = id
        IN DictSet(shapes[i], "id", JStr(id))]

\* Minutes of the day at which recommendations are asked: noon, 22:00, 23:30
RecommendTimes == {720, 1320, 1410}

Param(key, values) == {[k \in {} |-> <<>>]} \cup {key :> v : v \in values}

\* The query strings
QueryStrings ==
    {a @@ b @@ c @@ d @@ e :
        a \in Param("style", {<<"i", "t">>, <<"F", "R">>}),
        b \in Param("vegetarian", {<<"T", "r", "u", "e">>, S_false, <<"y", "e", "s">>}),
        c \in Param("deliveries", {S_true, <<"n", "o">>}),
        d \in Param("priceRange", {<<"$">>}),
        e \in Param("openNow", {S_false, <<"F", "A", "L", "S", "E">>, S_true})}

Query(params, body) == [params |-> params, body |-> body]

\* Requests with a JSON body: its keys win over the query string; values that
\* are no str; a body that is no object
BodyQueries ==
    {Query("style" :> <<"i", "t">>, JObj("style" :> JStr(<<"f", "r">>))),
     Query("openNow" :> S_false, JObj(EmptyDict)),
     Query(NoParams, JObj("vegetarian" :> JBool(TRUE))),
     Query(NoParams, JObj("openNow" :> JBool(FALSE))),
     Query(NoParams, JObj("priceRange" :> JNum(1))),
     Query(NoParams, JArr(<<JNum(1)>>)),
     Query(NoParams, JNull)}

\* The start of a behaviour: a request, the container it is asked of, the
\* clock, and what answers
RecommendStart(q, shapes, minute, up, acct, env) ==
    /\ store = StoreOf(shapes)
    /\ order = [i \in 1..Len(shapes) |-> ItemId(i)]
    /\ query = q
    /\ tNow = HHMM(minute)
    /\ vaultUp = up
    /\ storeUp = acct
    /\ environ = env
    /\ now = 0
    /\ served = 0
    /\ secretCache = [k \in {} |-> <<>>]
    /\ req = NoRequest
    /\ resp = NoResponse
    /\ requestLog = NoLog
    /\ storeCalls = <<>>
    /\ pc = "idle"
    /\ tOpen = HHMM(0) /\ tClose = HHMM(0) /\ tResult = TRUE
    /\ merged = NoOutcome
    /\ handed = <<>>
    /\ matched = NoOutcome
    /\ again = NoOutcome
    /\ refiltered = NoOutcome
    /\ recommendation = NoAnswer
    /\ NoResolver

\* Every query string over every container at every time; the requests with a
\* body at noon; two requests over two containers with every answer of the
\* vault, the store and the environment
InitRecommend ==
    \/ \E q \in QueryStrings : \E c \in Containers : \E m \in RecommendTimes :
          RecommendStart(Query(q, InvalidJson), c, m, SecretNames, TRUE, EmptyEnv)
    \/ \E q \in BodyQueries : \E c \in Containers :
          RecommendStart(q, c, 720, SecretNames, TRUE, EmptyEnv)
    \/ \E q \in {NoParams, "openNow" :> S_false} :
       \E c \in {<<>>, <<Italian @@ Day @@ Both(TRUE, TRUE)>>} :
       \E v \in {SecretNames, {}, SecretNames \ {"cosmos-key"}} :
       \E u \in BOOLEAN : \E e \in Environments :
          RecommendStart(Query(q, InvalidJson), c, 720, v, u, e)

\* One invocation of the recommendation function at clock minute tNow
RecommendRequest ==
    /\ pc = "idle"
    /\ \E r \in {main_recommend(query, store, order, secretCache, vaultUp, environ,
                                storeUp, tNow)} :
        /\ recommendation' = r.resp
        /\ secretCache' = r.cache
        /\ merged' = r.query_params
        /\ handed' = r.restaurants
        /\ matched' = [raised |-> r.matching.raised, value |-> r.matching.value]
    /\ pc' = "responded"
    /\ UNCHANGED <<store, now, served, environ, req, resp, requestLog, storeCalls,
                   vaultUp, storeUp, tOpen, tClose, tNow, tResult, order, query,
                   again, refiltered>>
    /\ UNCHANGED resolverVars

\* filter_restaurants once more with the same parameters on the same list
\* within the same minute
FilterAgain ==
    /\ pc = "responded"
    /\ ~merged.raised
    /\ \E r \in {filter_restaurants(merged.value, handed, tNow)} :
        /\ again' = [raised |-> r.raised, value |-> r.value]
        /\ handed' = r.restaurants
    /\ pc' = "again"
    /\ UNCHANGED <<store, now, served, secretCache, environ, req, resp, requestLog,
                   storeCalls, vaultUp, storeUp, tOpen, tClose, tNow, tResult,
                   order, query, merged, matched, refiltered, recommendation>>
    /\ UNCHANGED resolverVars

\* filter_restaurants with the same parameters on the list it returned
FilterResult ==
    /\ pc = "again"
    /\ ~matched.raised
    /\ \E r \in {filter_restaurants(merged.value, matched.value, tNow)} :
        /\ refiltered' = [raised |-> r.raised, value |-> r.value]
        /\ matched' = [matched EXCEPT !.value = r.restaurants]
    /\ pc' = "refiltered"
    /\ UNCHANGED <<store, now, served, secretCache, environ, req, resp, requestLog,
                   storeCalls, vaultUp, storeUp, tOpen, tClose, tNow, tResult,
                   order, query, merged, handed, again, recommendation>>
    /\ UNCHANGED resolverVars

NextRecommend == RecommendRequest \/ FilterAgain \/ FilterResult

SpecRecommend == InitRecommend /\ [][NextRecommend]_vars

-----------------------------------------------------------------------------
(* The secret resolver on its own: threads of one process call
   get_secret_from_keyvault while the vault rotates secrets and comes and goes *)

MaxResolves == 3     \* calls of get_secret_from_keyvault in one behaviour

\* The names resolved, and the value a rotation gives a secret
ResolverNames == {"admin-api-key", "cosmos-key"}
Rotated == <<"w">>

\* os.environ: nothing set, every secret set, or cosmos-key set to the empty text
ResolverEnvironments == Environments \cup {"cosmos-key" :> <<>>}

InitResolver ==
    /\ store = EmptyDict
    /\ now = 0
    /\ served = 0
    /\ secretCache = [k \in {} |-> <<>>]
    /\ environ \in ResolverEnvironments
    /\ req = NoRequest
    /\ resp = NoResponse
    /\ requestLog = NoLog
    /\ storeCalls = <<>>
    /\ vaultUp = SecretNames
    /\ storeUp = TRUE
    /\ pc = "idle"
    /\ tOpen = HHMM(0) /\ tClose = HHMM(0) /\ tNow = HHMM(0) /\ tResult = TRUE
    /\ NoRecommendation
    /\ NoResolver

\* What the resolver leaves alone
ResolverFrame ==
    UNCHANGED <<store, now, served, environ, req, resp, requestLog, storeCalls,
                storeUp, pc, tOpen, tClose, tNow, tResult, order, query, merged,
                handed, matched, again, refiltered, recommendation>>

\* No thread is inside get_secret_from_keyvault
NoCallInProgress == \A th \in Threads : threads[th].pc \in {"idle", "returned"}

\* Line 14: a thread calls get_secret_from_keyvault(name)
StartResolve(th, name) ==
    /\ threads[th].pc \in {"idle", "returned"}
    /\ resolves < MaxResolves
    /\ resolves' = resolves + 1
    /\ threads' = [threads EXCEPT ![th] = [Outside EXCEPT !.pc = "check", !.name = name]]
    /\ UNCHANGED <<secretCache, vault, vaultUp, learned>>
    /\ ResolverFrame

\* The same call, made while no other call is in progress
StartAlone(th, name) ==
    /\ NoCallInProgress
    /\ StartResolve(th, name)

\* Lines 16-17: return the cached value, or go on to the vault
CacheLookup(th) ==
    /\ threads[th].pc = "check"
    /\ threads' = [threads EXCEPT ![th] =
          IF CacheHit(threads[th].name, secretCache)
          THEN [@ EXCEPT !.pc = "returned",
                         !.result = [raised |-> FALSE,
                                     value |-> secretCache[threads[th].name]]]
          ELSE [@ EXCEPT !.pc = "vault"]]
    /\ UNCHANGED <<secretCache, vault, vaultUp, learned, resolves>>
    /\ ResolverFrame

\* Lines 19-23: the call to the vault
CallVault(th) ==
    /\ threads[th].pc = "vault"
    /\ \E a \in {VaultLookup(threads[th].name, vaultUp, vault)} :
        /\ threads' = [threads EXCEPT ![th] =
              IF a.raised
              THEN [@ EXCEPT !.pc = "except", !.called = TRUE]
              ELSE [@ EXCEPT !.pc = "store", !.called = TRUE, !.secret = a.value]]
        /\ learned' = IF a.raised \/ threads[th].name \in DOMAIN learned
                      THEN learned
                      ELSE DictSet(learned, threads[th].name, a.value)
    /\ UNCHANGED <<secretCache, vault, vaultUp, resolves>>
    /\ ResolverFrame

\* Lines 24-27: _secret_cache[secret_name] = secret; return secret
CacheStore(th) ==
    /\ threads[th].pc = "store"
    /\ secretCache' = DictSet(secretCache, threads[th].name, threads[th].secret)
    /\ threads' = [threads EXCEPT ![th] =
          [@ EXCEPT !.pc = "returned",
                    !.result = [raised |-> FALSE, value |-> threads[th].secret]]]
    /\ UNCHANGED <<vault, vaultUp, learned, resolves>>
    /\ ResolverFrame

\* Lines 28-35: the except branch
Fallback(th) ==
    /\ threads[th].pc = "except"
    /\ threads' = [threads EXCEPT ![th] =
          [@ EXCEPT !.pc = "returned",
                    !.result = EnvironmentFallback(threads[th].name, environ)]]
    /\ UNCHANGED <<secretCache, vault, vaultUp, learned, resolves>>
    /\ ResolverFrame

\* The vault's operator rotates a secret
VaultRotates(name) ==
    /\ vault' = [vault EXCEPT ![name] = IF @ = Rotated THEN VaultValue(name) ELSE Rotated]
    /\ UNCHANGED <<secretCache, vaultUp, threads, learned, resolves>>
    /\ ResolverFrame

\* The vault stops or starts answering for a name
VaultToggles(name) ==
    /\ vaultUp' = IF name \in vaultUp THEN vaultUp \ {name} ELSE vaultUp \cup {name}
    /\ UNCHANGED <<secretCache, vault, threads, learned, resolves>>
    /\ ResolverFrame

\* Concurrent invocations
NextResolver ==
    \/ \E th \in Threads : \E name \in ResolverNames : StartResolve(th, name)
    \/ \E th \in Threads : CacheLookup(th)
    \/ \E th \in Threads : CallVault(th)
    \/ \E th \in Threads : CacheStore(th)
    \/ \E th \in Threads : Fallback(th)
    \/ \E name \in ResolverNames : VaultRotates(name)
    \/ \E name \in ResolverNames : VaultToggles(name)

SpecResolver == InitResolver /\ [][NextResolver]_vars

\* One call after the other
NextSequence ==
    \/ \E th \in Threads : \E name \in ResolverNames : StartAlone(th, name)
    \/ \E th \in Threads : CacheLookup(th)
    \/ \E th \in Threads : CallVault(th)
    \/ \E th \in Threads : CacheStore(th)
    \/ \E th \in Threads : Fallback(th)
    \/ \E name \in ResolverNames : VaultRotates(name)
    \/ \E name \in ResolverNames : VaultToggles(name)

SpecSequence == InitResolver /\ [][NextSequence]_vars

-----------------------------------------------------------------------------
(* What the claims speak of, read off a request and the state after main *)

Responded == pc = "responded"

BodyField(rq, key) ==
    IF IsDict(rq.body) /\ key \in DOMAIN rq.body[2] THEN rq.body[2][key] ELSE JNull

\* The caller's key: the first non-empty of the x-admin-key header, the
\* admin_key query parameter and the admin_key field of the JSON body
CallerKey(rq) ==
    LET h == HeaderGet(rq.headers, K_x_admin_key)
        q == IF K_admin_key \in DOMAIN rq.params THEN JStr(rq.params[K_admin_key]) ELSE JNull
        b == BodyField(rq, "admin_key")
    IN IF Truthy(h) THEN h ELSE IF Truthy(q) THEN q ELSE b

\* Whether a secret can be resolved during the invocation
Resolvable(name) ==
    \/ name \in DOMAIN secretCache
    \/ name \in vaultUp
    \/ name \in DOMAIN environ /\ environ[name] # <<>>

\* The admin key as resolved during the invocation: cache, vault, environment
ResolvedAdminKey ==
    IF "admin-api-key" \in DOMAIN secretCache
    THEN JStr(secretCache["admin-api-key"])
    ELSE IF "admin-api-key" \in DOMAIN environ /\ environ["admin-api-key"] # <<>>
    THEN JStr(environ["admin-api-key"])
    ELSE JNull

\* The caller's key exists and equals the resolved admin key exactly
KeyAccepted ==
    /\ Truthy(CallerKey(req))
    /\ CallerKey(req)[1] = "str"
    /\ CallerKey(req) = ResolvedAdminKey

\* The record store can be reached during the invocation
ConnectionOpens ==
    /\ storeUp
    /\ \A n \in {"cosmos-endpoint", "cosmos-key", "CosmosDataBase", "CosmosContainer"} :
          Resolvable(n)

\* The action the request carries: the query parameter for GET, the body field
\* for the other methods; JNull when it carries none
RequestedAction(rq) ==
    IF rq.method = "GET"
    THEN IF K_action \in DOMAIN rq.params THEN JStr(rq.params[K_action]) ELSE JNull
    ELSE BodyField(rq, "action")

KnownActions == {S_add, S_update, S_delete, S_get, S_list}

\* The request is the named operation, sent the way section 4.3 asks for it
IsOperation(rq, action) ==
    /\ RequestedAction(rq)[1] = "str"
    /\ Lower(RequestedAction(rq)[2]) = action
    /\ (rq.method = "GET") = (action = S_get)

\* The id an operation names: the query parameter of get, the body field else
OperationId(rq) ==
    IF rq.method = "GET"
    THEN IF K_id \in DOMAIN rq.params THEN JStr(rq.params[K_id]) ELSE JNull
    ELSE BodyField(rq, "id")

AllItems == {store[i] : i \in DOMAIN store}

-----------------------------------------------------------------------------
(* C1 *)

\* C1: an admin request whose caller's key (first non-empty of header, query
\* parameter, body field) is missing or differs from the resolved admin key is
\* answered 401, whatever its method and action, issues no operation against
\* the record store and leaves the store unchanged.
C1_UnauthorizedIs401 ==
    [][(pc' = "responded" /\ ~KeyAccepted') =>
          /\ resp'.status = 401
          /\ storeCalls' = <<>>
          /\ store' = store]_vars

\* An add whose header key is wrong although the query parameter holds the
\* right key: 401, nothing stored.
C1_Witness ==
    /\ Responded
    /\ IsOperation(req, S_add)
    /\ req.headers = (K_x_admin_key :> CaseKey)
    /\ K_admin_key \in DOMAIN req.params /\ req.params[K_admin_key] = GoodKey
    /\ ResolvedAdminKey = JStr(GoodKey)
    /\ resp.status = 401
    /\ store = EmptyDict

-----------------------------------------------------------------------------
(* C2 *)

\* The values of the logged headers, query parameters and url
LoggedValues(log) ==
    {log.headers[k] : k \in DOMAIN log.headers}
      \cup {log.query_params[k] : k \in DOMAIN log.query_params}
      \cup {log.url.query[k] : k \in DOMAIN log.url.query}

\* C2: the request record handed to the audit logger holds the admin key in
\* none of its fields, wherever the caller who knows the key has put it.
C2_LogHidesKey ==
    (Responded /\ KeyAccepted) => CallerKey(req)[2] \notin LoggedValues(requestLog)

-----------------------------------------------------------------------------
(* C3 *)

\* C3: an authenticated request whose action is none of add, update, delete,
\* get, list is answered 400 "Invalid action" for every method, and main never
\* ends without a response.
C3_UnknownActionIs400 ==
    (Responded /\ KeyAccepted) =>
        /\ resp # NoResponse
        /\ (RequestedAction(req)[1] = "str"
              /\ Lower(RequestedAction(req)[2]) \notin KnownActions) =>
                 (resp.status = 400 /\ resp.error = "Invalid action")

-----------------------------------------------------------------------------
(* C4 *)

\* The request carries no action
CarriesNoAction(rq) ==
    IF rq.method = "GET"
    THEN K_action \notin DOMAIN rq.params
    ELSE rq.body = InvalidJson \/ (IsDict(rq.body) /\ "action" \notin DOMAIN rq.body[2])

\* The answer of list: 200 with every stored item and their number
IsListing(rsp) ==
    /\ rsp.status = 200
    /\ rsp.kind = "list"
    /\ rsp.restaurants = AllItems
    /\ rsp.count = Cardinality(DOMAIN store)

\* C4: an authenticated request that carries no action is handled as list, for
\* GET and for POST, PUT, DELETE alike: 200 with the full array and its count
\* when the store answers.
C4_NoActionIsList ==
    (Responded /\ KeyAccepted /\ CarriesNoAction(req)) =>
        IF ConnectionOpens THEN IsListing(resp) ELSE resp.status = 500

-----------------------------------------------------------------------------
(* C5 *)

\* The five required fields, in the order the claim lists them
RequiredInOrder == <<"name", "style", "openHour", "closeHour", "priceRange">>

\* The restaurant object an add request carries
Restaurant(rq) == BodyField(rq, "restaurant")

\* An add whose restaurant is an object lacking a required field
AddLacksRequired(rq) ==
    /\ IsOperation(rq, S_add)
    /\ IsDict(Restaurant(rq))
    /\ \E i \in 1..5 : RequiredInOrder[i] \notin DOMAIN Restaurant(rq)[2]

FirstLacking(rq) ==
    RequiredInOrder[CHOOSE i \in 1..5 :
        /\ RequiredInOrder[i] \notin DOMAIN Restaurant(rq)[2]
        /\ \A j \in 1..(i - 1) : RequiredInOrder[j] \in DOMAIN Restaurant(rq)[2]]

\* C5 as claimed: every add whose restaurant object lacks a required field is
\* answered 400 "Missing required field: <first missing>", and the store is
\* neither written nor changed.
C5_MissingFieldReported ==
    [][(pc' = "responded" /\ KeyAccepted' /\ AddLacksRequired(req')) =>
          /\ resp'.status = 400
          /\ resp'.message = "Missing required field: " \o FirstLacking(req')
          /\ storeCalls' = <<>>
          /\ store' = store]_vars

\* C5 as amended: the message names the first missing field when the object is
\* not empty and the store connection opens; an empty object is answered
\* "Restaurant data is required", a failed connection with its error's text;
\* always 400, before any boolean check, id generation or store write.
C5_MissingFieldReportedWhenConnected ==
    [][(pc' = "responded" /\ KeyAccepted' /\ AddLacksRequired(req')) =>
          /\ resp'.status = 400
          /\ resp'.message =
                (IF DOMAIN Restaurant(req')[2] = {}
                 THEN "Restaurant data is required"
                 ELSE IF ConnectionOpens'
                 THEN "Missing required field: " \o FirstLacking(req')
                 ELSE ConnectionErrorText)
          /\ storeCalls' = <<>>
          /\ store' = store]_vars

\* An add lacking name and priceRange: the message names name, the first.
C5_Witness ==
    /\ Responded /\ KeyAccepted /\ AddLacksRequired(req)
    /\ DOMAIN Restaurant(req)[2] = {"style", "openHour", "closeHour"}
    /\ resp.status = 400
    /\ resp.message = "Missing required field: name"

-----------------------------------------------------------------------------
(* C6 *)

\* What the claim has an add store for a supplied boolean field: the boolean
\* itself, the boolean a "true"/"false" text names, or nothing (an error)
ClaimedBoolean(v) ==
    IF IsBool(v) THEN v
    ELSE IF v[1] = "str" /\ Lower(v[2]) = S_true THEN JBool(TRUE)
    ELSE IF v[1] = "str" /\ Lower(v[2]) = S_false THEN JBool(FALSE)
    ELSE JNull

SuppliedBooleans(rq) == {"vegetarian", "deliveries"} \cap DOMAIN Restaurant(rq)[2]

\* An add whose restaurant object has the five required fields
AddWithRequired(rq) ==
    /\ IsOperation(rq, S_add)
    /\ IsDict(Restaurant(rq))
    /\ \A i \in 1..5 : RequiredInOrder[i] \in DOMAIN Restaurant(rq)[2]

\* C6: on add a supplied vegetarian or deliveries that is a boolean is stored
\* unchanged, the text "true" or "false" in any letter case is stored as that
\* boolean, and any other value is a validation error: 400, nothing stored.
C6_BooleanCoercion ==
    (Responded /\ KeyAccepted /\ AddWithRequired(req) /\ ConnectionOpens) =>
        IF \E f \in SuppliedBooleans(req) : ClaimedBoolean(Restaurant(req)[2][f]) = JNull
        THEN resp.status = 400 /\ storeCalls = <<>>
        ELSE resp.status = 201 =>
                \A f \in SuppliedBooleans(req) :
                    /\ resp.restaurant[f] = ClaimedBoolean(Restaurant(req)[2][f])
                    /\ store[resp.restaurant["id"]][f] = ClaimedBoolean(Restaurant(req)[2][f])

-----------------------------------------------------------------------------
(* C7 *)

\* The request reaches update_restaurant, delete_restaurant or get_restaurant:
\* it names an id, and an update carries data
ReachesOperation(rq) ==
    /\ \/ IsOperation(rq, S_update) /\ Truthy(Restaurant(rq))
       \/ IsOperation(rq, S_delete)
       \/ IsOperation(rq, S_get)
    /\ Truthy(OperationId(rq))

\* C7 as claimed: update, delete and get of an id the store does not hold are
\* answered 404 (update with "Restaurant not found") and leave the store
\* unchanged.
C7_MissingIdIs404 ==
    [][(pc' = "responded" /\ KeyAccepted' /\ ReachesOperation(req')
          /\ OperationId(req') \notin DOMAIN store) =>
          /\ resp'.status = 404
          /\ resp'.message = "Restaurant not found"
          /\ store' = store]_vars

\* C7 as amended: so it is when the store connection opens; when it does not,
\* update and delete are answered 400 and get 500 with the connection error's
\* text; the store is unchanged either way.
C7_MissingIdIs404WhenConnected ==
    [][(pc' = "responded" /\ KeyAccepted' /\ ReachesOperation(req')
          /\ OperationId(req') \notin DOMAIN store) =>
          /\ IF ConnectionOpens'
             THEN resp'.status = 404 /\ resp'.message = "Restaurant not found"
             ELSE /\ resp'.status = (IF IsOperation(req', S_get) THEN 500 ELSE 400)
                  /\ resp'.message = ConnectionErrorText
          /\ store' = store]_vars

\* An update of an id the store does not hold, while it holds another item
\* and after the id was held and deleted or never added: 404.
C7_Witness ==
    /\ Responded /\ KeyAccepted
    /\ IsOperation(req, S_update) /\ ReachesOperation(req)
    /\ OperationId(req) = Id1
    /\ DOMAIN store = {Id2}
    /\ resp.status = 404
    /\ resp.message = "Restaurant not found"

-----------------------------------------------------------------------------
(* C8 *)

\* The clock value of a timestamp written by the handler
TimeOf(v) == v[2]

\* C8: across every operation a stored item keeps its createdAt and its
\* updatedAt never decreases; at creation updatedAt equals createdAt.
C8_TimestampsKept ==
    [][/\ \A i \in DOMAIN store \cap DOMAIN store' :
            /\ store'[i]["createdAt"] = store[i]["createdAt"]
            /\ TimeOf(store'[i]["updatedAt"]) >= TimeOf(store[i]["updatedAt"])
       /\ \A i \in DOMAIN store' \ DOMAIN store :
            store'[i]["updatedAt"] = store'[i]["createdAt"]]_vars

-----------------------------------------------------------------------------
(* C9 *)

\* A successful update of id with data
UpdateSucceeded(rq, rsp) ==
    /\ IsOperation(rq, S_update)
    /\ rsp.status = 200

\* C9 as claimed: after a successful update the item keeps its id, every
\* field of data but id holds the supplied value, every other field but
\* updatedAt is unchanged, and no other item is created, changed or removed.
C9_UpdateFrame ==
    [][(pc' = "responded" /\ UpdateSucceeded(req', resp')) =>
          LET id == OperationId(req')
              data == Restaurant(req')[2]
          IN /\ DOMAIN store' = DOMAIN store
             /\ store'[id]["id"] = id
             /\ \A f \in DOMAIN data \ {"id"} : store'[id][f] = data[f]
             /\ \A f \in DOMAIN store[id] \ (DOMAIN data \cup {"updatedAt"}) :
                   store'[id][f] = store[id][f]
             /\ DOMAIN store'[id] = DOMAIN store[id] \cup DOMAIN data
             /\ \A j \in DOMAIN store \ {id} : store'[j] = store[j]]_vars

\* C9 as amended: every field of data but id and updatedAt holds the supplied
\* value; updatedAt holds the time of the update, also when data names it.
C9_UpdateFrameButUpdatedAt ==
    [][(pc' = "responded" /\ UpdateSucceeded(req', resp')) =>
          LET id == OperationId(req')
              data == Restaurant(req')[2]
          IN /\ DOMAIN store' = DOMAIN store
             /\ store'[id]["id"] = id
             /\ \A f \in DOMAIN data \ {"id", "updatedAt"} : store'[id][f] = data[f]
             /\ store'[id]["updatedAt"] = JTime(now')
             /\ \A f \in DOMAIN store[id] \ (DOMAIN data \cup {"updatedAt"}) :
                   store'[id][f] = store[id][f]
             /\ DOMAIN store'[id] = DOMAIN store[id] \cup DOMAIN data
             /\ \A j \in DOMAIN store \ {id} : store'[j] = store[j]]_vars

\* A successful update of r1 whose data names id r2 while r2 is stored too:
\* r1 keeps its id and takes the new name.
C9_Witness ==
    /\ Responded /\ UpdateSucceeded(req, resp)
    /\ OperationId(req) = Id1
    /\ "id" \in DOMAIN Restaurant(req)[2] /\ Restaurant(req)[2]["id"] = Id2
    /\ DOMAIN store = {Id1, Id2}
    /\ store[Id1]["id"] = Id1
    /\ store[Id1]["name"] = NameB
    /\ store[Id2]["name"] = NameA

-----------------------------------------------------------------------------
(* C10 *)

\* The minute of the day a zero-padded "HH:MM" names
DigitValue(c) == CHOOSE n \in 0..9 : Digit(n) = c
Minutes(s) ==
    (DigitValue(s[1]) * 10 + DigitValue(s[2])) * 60
      + DigitValue(s[4]) * 10 + DigitValue(s[5])

\* C10: for zero-padded "HH:MM" open, close and now the check returns
\* (now >= open or now <= close) when close < open and (open <= now <= close)
\* otherwise, the comparisons being those of the minutes of the day: both ends
\* inclusive, (22:00, 02:00) open at 23:30 and closed at 12:00, open = close
\* open at that minute only.
C10_OpenWindow ==
    pc = "checked" =>
        LET o == Minutes(tOpen)
            c == Minutes(tClose)
            n == Minutes(tNow)
        IN /\ tResult = (IF c < o THEN n >= o \/ n <= c ELSE o <= n /\ n <= c)
           /\ StrLess(tClose, tOpen) = (c < o)
           /\ (c >= o /\ (n = o \/ n = c)) => tResult
           /\ (o = 1320 /\ c = 120 /\ n = 1410) => tResult
           /\ (o = 1320 /\ c = 120 /\ n = 720) => ~tResult
           /\ (o = c) => (tResult = (n = o))

\* The window 22:00 to 02:00 checked at 23:30: open.
C10_Witness ==
    /\ pc = "checked"
    /\ tOpen = <<"2", "2", ":", "0", "0">>
    /\ tClose = <<"0", "2", ":", "0", "0">>
    /\ tNow = <<"2", "3", ":", "3", "0">>
    /\ tResult = TRUE

-----------------------------------------------------------------------------
(* What the claims on the recommendation handler speak of *)

\* main of the recommendation handler has returned
Recommended == pc \in {"responded", "again", "refiltered"}

\* filter_restaurants was called with parameters that are all text
FilterCalled ==
    /\ Recommended
    /\ ~merged.raised
    /\ \A k \in DOMAIN merged.value : merged.value[k][1] = "str"

\* The value of a filter parameter, JNull when it is not supplied
FilterParam(key) == DictGet(merged.value, key, JNull)

\* openNow=false was given, in any letter case
OpenNowOff ==
    /\ FilterParam("openNow")[1] = "str"
    /\ Lower(FilterParam("openNow")[2]) = S_false

\* The record is open at the clock's minute
OpenAtClock(r) ==
    /\ {"openHour", "closeHour"} \subseteq DOMAIN r
    /\ Minutes(r["openHour"][2]) <= Minutes(r["closeHour"][2])
         => /\ Minutes(r["openHour"][2]) <= Minutes(tNow)
            /\ Minutes(tNow) <= Minutes(r["closeHour"][2])
    /\ Minutes(r["openHour"][2]) > Minutes(r["closeHour"][2])
         => \/ Minutes(r["openHour"][2]) <= Minutes(tNow)
            \/ Minutes(tNow) <= Minutes(r["closeHour"][2])

\* A parameter parsed as a boolean: "true" in any letter case is true
ParsedBoolean(v) == JBool(Lower(v[2]) = S_true)

\* The record satisfies every supplied filter other than openNow
SatisfiesFilters(r) ==
    /\ "style" \in DOMAIN merged.value
         => /\ "style" \in DOMAIN r
            /\ r["style"][1] = "str"
            /\ Lower(r["style"][2]) = Lower(FilterParam("style")[2])
    /\ \A f \in {"vegetarian", "deliveries"} :
          f \in DOMAIN merged.value
            => f \in DOMAIN r /\ r[f] = ParsedBoolean(FilterParam(f))
    /\ "priceRange" \in DOMAIN merged.value
         => "priceRange" \in DOMAIN r /\ r["priceRange"] = FilterParam("priceRange")

OpenAndSatisfies(r) == OpenAtClock(r) /\ SatisfiesFilters(r)

-----------------------------------------------------------------------------
(* C11 *)

\* C11: unless openNow is "false" (in any letter case), filter_restaurants
\* returns, in input order, exactly the records of its input list that are open
\* at the clock's minute and satisfy every supplied filter (style without
\* regard to case, vegetarian and deliveries equal to the parameter parsed as
\* a boolean, priceRange the same text).
C11_OpenMatchesReturned ==
    (FilterCalled /\ ~OpenNowOff) =>
        /\ ~matched.raised
        /\ matched.value = SelectSeq(handed, OpenAndSatisfies)

-----------------------------------------------------------------------------
(* C12 *)

\* C12: with openNow=false filter_restaurants returns exactly the records of
\* the original list that satisfy every other supplied filter, open or closed.
C12_OpenNowFalseBypasses ==
    (FilterCalled /\ OpenNowOff) =>
        /\ ~matched.raised
        /\ matched.value = SelectSeq(handed, SatisfiesFilters)

-----------------------------------------------------------------------------
(* C13 *)

-----------------------------------------------------------------------------
(* C14 *)

\* The store fetch of the invocation failed: the hardcoded list was used
FetchFailed == ~ConnectionOpens

\* C14: the recommendation handler answers 200 only with a non-empty
\* restaurants array of totalMatches elements that all carry isOpenNow; an
\* empty filtered list is answered 404 with a message field, also when the
\* store fetch failed and the empty hardcoded list took its place.
C14_EmptyIs404 ==
    Recommended =>
        /\ recommendation.status = 200
             => /\ recommendation.body.restaurants # <<>>
                /\ Len(recommendation.body.restaurants) = recommendation.body.totalMatches
                /\ \A i \in 1..Len(recommendation.body.restaurants) :
                      /\ "isOpenNow" \in DOMAIN recommendation.body.restaurants[i]
                      /\ IsBool(recommendation.body.restaurants[i]["isOpenNow"])
                /\ ~matched.raised
                /\ Len(matched.value) = recommendation.body.totalMatches
        /\ (~merged.raised /\ ~matched.raised /\ matched.value = <<>>)
             => /\ recommendation.status = 404
                /\ "message" \in DOMAIN recommendation.body
        /\ (FetchFailed /\ ~merged.raised /\ ~matched.raised)
             => /\ handed = <<>>
                /\ recommendation.status = 404
                /\ "message" \in DOMAIN recommendation.body

\* The store holds a record, the fetch fails, the answer is 404
C14_Witness ==
    /\ Recommended
    /\ order # <<>>
    /\ FetchFailed
    /\ recommendation.status = 404
    /\ "message" \in DOMAIN recommendation.body

-----------------------------------------------------------------------------
(* C15 *)

\* The admin request goes to the record store once its key is accepted: a
\* listing, or add, update, delete, get with what the operation needs
NeedsStore(rq) ==
    \/ ReachesOperation(rq)
    \/ IsOperation(rq, S_add) /\ Truthy(Restaurant(rq))
    \/ rq.method = "GET" /\ CarriesNoAction(rq)
    \/ RequestedAction(rq)[1] = "str" /\ Lower(RequestedAction(rq)[2]) = S_list

\* A secret the admin request needs is neither cached, nor answered by the
\* vault, nor set in the environment
SecretMissing ==
    \/ ~Resolvable("admin-api-key")
    \/ /\ KeyAccepted
       /\ NeedsStore(req)
       /\ \E n \in {"cosmos-endpoint", "cosmos-key", "CosmosDataBase", "CosmosContainer"} :
             ~Resolvable(n)

\* C15: a request that needs a secret which neither the vault nor the
\* environment resolves ends as a failure of the server (500), never as 401,
\* 400, 404 or a success.
C15_MissingSecretIsFatal ==
    (Responded /\ SecretMissing) => resp.status \notin {200, 201, 400, 401, 404}

-----------------------------------------------------------------------------
(* C16 *)

\* C16: under every interleaving of concurrent resolves the secret cache is
\* append-only and write-once per key: no entry is removed and no entry changes
\* its value once set, also when the vault answers racing first accesses with
\* different values.
C16_CacheWriteOnce ==
    [][\A n \in DOMAIN secretCache :
          /\ n \in DOMAIN secretCache'
          /\ secretCache'[n] = secretCache[n]]_vars

-----------------------------------------------------------------------------
(* C17 *)

\* The thread's call of get_secret_from_keyvault returns or raises in this step
ReturnsNow(th) == threads[th].pc # "returned" /\ threads'[th].pc = "returned"

\* C17: in a sequence of resolves the vault is called only on a cache miss and
\* never again for a name once a lookup of it has succeeded; from then on every
\* resolve of the name returns the value of that lookup; after a vault failure
\* the environment variable of the name is returned if it is set and not empty
\* and is not put in the cache, else the call raises.
C17_ResolveSequence ==
    [][\A th \in Threads :
        LET name == threads'[th].name
            result == threads'[th].result
        IN /\ (threads'[th].called /\ ~threads[th].called)
                => /\ name \notin DOMAIN secretCache
                   /\ name \notin DOMAIN learned
           /\ (threads[th].pc = "check" /\ threads'[th].pc # "check")
                => (threads'[th].pc = "vault") = (name \notin DOMAIN secretCache)
           /\ (ReturnsNow(th) /\ name \in DOMAIN learned)
                => /\ ~result.raised
                   /\ result.value = learned[name]
                   /\ secretCache'[name] = learned[name]
           /\ (ReturnsNow(th) /\ name \notin DOMAIN learned)
                => /\ threads'[th].called
                   /\ name \notin DOMAIN secretCache'
                   /\ IF name \in DOMAIN environ /\ environ[name] # <<>>
                      THEN ~result.raised /\ result.value = environ[name]
                      ELSE result.raised]_vars

\* The vault has answered a first resolve, the secret was rotated, and a later
\* resolve of the name returns the first value without calling the vault
C17_Witness ==
    \E th \in Threads :
        /\ threads[th].pc = "returned"
        /\ threads[th].name \in DOMAIN learned
        /\ ~threads[th].called
        /\ threads[th].result.value = learned[threads[th].name]
        /\ vault[threads[th].name] # learned[threads[th].name]

-----------------------------------------------------------------------------
(* C18 *)

\* C18: after any sequence of admin operations every stored record has
\* vegetarian and deliveries each either absent or a boolean.
C18_StoredBooleans ==
    \A id \in DOMAIN store :
        \A f \in {"vegetarian", "deliveries"} :
            f \in DOMAIN store[id] => IsBool(store[id][f])

====
